---- MODULE Spec2Model ----
(***************************************************************************)
(* Model of the charging tracker of src/App.tsx (the App component) and of *)
(* getChargingInsights (src/types.ts).                                     *)
(*                                                                         *)
(* React state (useState) and refs (useRef) are the variables.  A battery  *)
(* event (updateStatus, App.tsx:54-57) sets isCharging and level in one    *)
(* batch; the session effect (App.tsx:110-175) then runs iff one of its    *)
(* dependencies changed, and the persistence effect (App.tsx:83-87) runs   *)
(* iff pastSessions changed.  One delivery with its effects is one step.   *)
(*                                                                         *)
(* JavaScript numbers are modelled as exact rationals <<n, d>> in lowest   *)
(* terms with d > 0; instants (Date.now()) are integers in milliseconds.   *)
(* A nullable state (SessionStats | null, the ref's current) is a sequence *)
(* of length 0 or 1.                                                       *)
(***************************************************************************)
EXTENDS Integers, Sequences, FiniteSets, TLC

(***************************************************************************)
(* Exact rational arithmetic.                                              *)
(***************************************************************************)
Abs(x) == IF x < 0 THEN -x ELSE x

RECURSIVE GCD(_, _)
GCD(a, b) == IF b = 0 THEN a ELSE GCD(b, a % b)

\* n / d in lowest terms, d # 0
Rat(n, d) ==
    LET g == GCD(Abs(n), Abs(d))
        s == IF d < 0 THEN -1 ELSE 1
    IN  << (s * n) \div g, (s * d) \div g >>

Zero == << 0, 1 >>

RAdd(x, y) == Rat(x[1] * y[2] + y[1] * x[2], x[2] * y[2])
RSub(x, y) == Rat(x[1] * y[2] - y[1] * x[2], x[2] * y[2])
RMul(x, y) == Rat(x[1] * y[1], x[2] * y[2])
\* x / y, y # 0
RDiv(x, y) == Rat(x[1] * y[2], x[2] * y[1])
RLt(x, y) == x[1] * y[2] < y[1] * x[2]
RLe(x, y) == x[1] * y[2] <= y[1] * x[2]
\* Math.max, Math.min
RMax(x, y) == IF RLt(x, y) THEN y ELSE x
RMin(x, y) == IF RLt(y, x) THEN y ELSE x

(***************************************************************************)
(* Program constants.                                                      *)
(***************************************************************************)
\* App.tsx:20  const BATTERY_CAPACITY_WH = 19.25
BATTERY_CAPACITY_WH == << 77, 4 >>
\* App.tsx:22
MAX_STORED_SESSIONS == 5
\* App.tsx:137  prev.slice(-49)
HistoryKeep == 49
\* App.tsx:133  Math.min(..., 120)
MaxWatts == 120
\* App.tsx:129  (1000 * 60 * 60)
MsPerHour == 1000 * 60 * 60
\* types.ts:24  endTime: number | null   (null as a number no instant equals)
NullTime == -1
\* types.ts:26  endLevel: number | null  (null as a number no level equals)
NullLevel == << -1, 1 >>

(***************************************************************************)
(* Bounds of the model.                                                    *)
(***************************************************************************)
\* battery events delivered in one behaviour of Spec
MaxEvents == 4
\* values batt.level takes (fractions of a full battery)
Levels == { << 2, 5 >>, << 13, 25 >> }
\* values Date.now() returns, in ms: the clock may stand still or step back
Times == { 0, 60000, 120000 }
\* values Math.random() returns, in [0, 1)
Randoms == { << 0, 1 >>, << 9, 10 >> }


VARIABLES
    mounted,          \* the component was constructed (its initializers returned)
    saved,            \* localStorage item 'vf-sessions'
    isCharging,       \* useState(false), App.tsx:30
    level,            \* useState(0), App.tsx:31
    metrics,          \* useState({watts, volts, amps}), App.tsx:32
    history,          \* useState<ChargingLog[]>([]), App.tsx:33
    session,          \* useState<SessionStats | null>(null), App.tsx:34
    pastSessions,     \* useState<SessionStats[]>, App.tsx:35
    aiInsight,        \* useState(''), App.tsx:39
    isLoadingInsight, \* useState(false), App.tsx:40
    lastUpdateRef,    \* useRef(null), App.tsx:43
    pending,          \* calls of getChargingInsights that have not returned
    now,              \* the value the last Date.now() of the session effect returned
    pre,              \* history variable: what the last step was and what it started from
    nEvents,          \* history variable: battery events delivered
    issued,           \* history variable: calls of triggerAiAnalysis
    accepted,         \* history variable: every telemetry sample ever appended
    sessionLog,       \* history variable: the samples appended since the last session was opened
    closedAll,        \* history variable: every session ever closed or loaded, most recent first
    closedKept,       \* history variable: closedAll since the last "Clear Logs"
    chargeStart,      \* history variable: level delivered with the last false -> true edge
    nStops            \* history variable: battery events that took charging from true to false

progVars == << mounted, saved, isCharging, level, metrics, history, session,
               pastSessions, aiInsight, isLoadingInsight, lastUpdateRef, pending, now >>
ghostVars == << pre, nEvents, issued, accepted, sessionLog, closedAll, closedKept,
                chargeStart, nStops >>
vars == << progVars, ghostVars >>

(***************************************************************************)
(* Array helpers.                                                          *)
(***************************************************************************)
\* Array.prototype.slice(-n), n > 0
SliceLast(s, n) == IF Len(s) <= n THEN s ELSE SubSeq(s, Len(s) - n + 1, Len(s))
\* Array.prototype.slice(0, n)
SliceFirst(s, n) == IF Len(s) <= n THEN s ELSE SubSeq(s, 1, n)

(***************************************************************************)
(* Rate estimator.                                                         *)
(***************************************************************************)
\* the jitter of estimateElectricalProperties: (Math.random() - 0.5) * 0.1
Jitter(rnd) == RMul(RSub(rnd, << 1, 2 >>), << 1, 10 >>)

\* variant: the tiers told by watts >= 25 and watts >= 12
TierVoltsInclusive(watts) ==
    IF RLe(<< 25, 1 >>, watts) THEN << 12, 1 >>
    ELSE IF RLe(<< 12, 1 >>, watts) THEN << 9, 1 >>
    ELSE << 5, 1 >>

\* the nominal voltage tier
TierVolts(watts) ==
    IF RLt(<< 25, 1 >>, watts) THEN << 12, 1 >>
    ELSE IF RLt(<< 12, 1 >>, watts) THEN << 9, 1 >>
    ELSE << 5, 1 >>

estimateElectricalProperties(watts, rnd) ==
    LET stableVolts == RAdd(TierVolts(watts), IF RLt(Zero, watts) THEN Jitter(rnd) ELSE Zero)
        amps == IF RLt(Zero, watts) THEN RDiv(watts, stableVolts) ELSE Zero
    IN  [volts |-> stableVolts, amps |-> amps]

\* level - lastUpdateRef.current.level
DeltaLevel(l, ref) == RSub(l, ref.level)
\* (now - lastUpdateRef.current.time) / (1000 * 60 * 60)
DeltaTimeHours(t, ref) == Rat(t - ref.time, MsPerHour)
\* variant: if (deltaTimeHours !== 0)
ElapsedNonZero(dth) == dth # Zero
\* if (deltaTimeHours > 0)
ElapsedOk(dth) == RLt(Zero, dth)
\* (deltaLevel * BATTERY_CAPACITY_WH) / deltaTimeHours, deltaTimeHours # 0
RawWattage(dl, dth) == RDiv(RMul(dl, BATTERY_CAPACITY_WH), dth)
\* variant: Math.max(wattage, 0), the cap forgotten
FloorOnly(w) == RMax(w, Zero)
\* Math.min(Math.max(wattage, 0), 120)
CleanWattage(w) == RMin(RMax(w, Zero), << MaxWatts, 1 >>)

(***************************************************************************)
(* Session tracker: the pieces of the session effect (App.tsx:110-175).    *)
(***************************************************************************)
\* variant: a comparison that always tells a change
AlwaysChanged(a, b) == TRUE
\* a value is not the one compared with: lastUpdateRef.current.level !== level,
\* and the comparison of a dependency [isCharging, level] with its last value
Changed(a, b) == a # b

\* the effect runs after a render iff a dependency changed
DepsChanged(c, l) == Changed(c, isCharging) \/ Changed(l, level)

\* variant: if (!session), the test of endTime forgotten
NoSession(sess) == sess = << >>
\* !session || session.endTime !== null
NoOpenSession(sess) == sess = << >> \/ sess[1].endTime # NullTime
\* variant: if (session), the test of endTime forgotten
HasSession(sess) == sess # << >>
\* session && session.endTime === null
HasOpenSession(sess) == sess # << >> /\ sess[1].endTime = NullTime

\* the object of setSession({...}) in the charging branch
NewSession(t0, l) ==
    [ startTime |-> t0, endTime |-> NullTime, startLevel |-> l, endLevel |-> NullLevel,
      avgWattage |-> Zero, maxWattage |-> Zero, avgVoltage |-> Zero,
      maxAmperage |-> Zero, totalEnergyWh |-> Zero ]

\* the session state after the first statement of the charging branch
OpenIfNone(sess, t0, l) == IF NoOpenSession(sess) THEN << NewSession(t0, l) >> ELSE sess

\* lastUpdateRef.current && lastUpdateRef.current.level !== level
HasBaseline(ref, l) == ref # << >> /\ Changed(ref[1].level, l)

\* a sample is computed and recorded
SampleAccepted(ref, l, t) == HasBaseline(ref, l) /\ ElapsedOk(DeltaTimeHours(t, ref[1]))

\* cleanWattage of the sample, when SampleAccepted
SampleWatts(ref, l, t) ==
    CleanWattage(RawWattage(DeltaLevel(l, ref[1]), DeltaTimeHours(t, ref[1])))

\* the ChargingLog appended by setHistory
LogEntry(t, l, watts, ep) ==
    [ timestamp |-> t, level |-> RMul(l, << 100, 1 >>), wattage |-> watts,
      voltage |-> ep.volts, amperage |-> ep.amps, status |-> "charging" ]

\* variant: prev.slice(-50)
PushHistoryKeeps50(prev, entry) == Append(SliceLast(prev, 50), entry)
\* setHistory(prev => [...prev.slice(-49), entry])
PushHistory(prev, entry) == Append(SliceLast(prev, HistoryKeep), entry)

\* variant: (prev + x) / 2 also for the first sample
NewAvgNoFirst(prevAvg, x) == RDiv(RAdd(prevAvg, x), << 2, 1 >>)
\* the first sample of a session is told by the average being 0
NewAvg(prevAvg, x) ==
    IF prevAvg = Zero THEN x ELSE RDiv(RAdd(prevAvg, x), << 2, 1 >>)

\* variant of the fold: the maxima are the last sample's values
FoldSessionLastAsMax(prev, watts, ep) ==
    IF prev = << >> THEN << >>
    ELSE << [ prev[1] EXCEPT
                !.maxWattage = watts,
                !.avgWattage = NewAvg(prev[1].avgWattage, watts),
                !.avgVoltage = NewAvg(prev[1].avgVoltage, ep.volts),
                !.maxAmperage = ep.amps ] >>

\* setSession(prev => ...): the aggregate fold
FoldSession(prev, watts, ep) ==
    IF prev = << >> THEN << >>
    ELSE << [ prev[1] EXCEPT
                !.maxWattage = RMax(prev[1].maxWattage, watts),
                !.avgWattage = NewAvg(prev[1].avgWattage, watts),
                !.avgVoltage = NewAvg(prev[1].avgVoltage, ep.volts),
                !.maxAmperage = RMax(prev[1].maxAmperage, ep.amps) ] >>

\* variant: if (lastUpdateRef.current && lastUpdateRef.current.level !== level) ...
NextRefOnlyOnChange(ref, l, t) ==
    IF ref # << >> /\ Changed(ref[1].level, l)
    THEN << [time |-> t, level |-> l] >>
    ELSE ref
\* if (!lastUpdateRef.current || lastUpdateRef.current.level !== level) lastUpdateRef.current = ...
NextRef(ref, l, t) ==
    IF ref = << >> \/ Changed(ref[1].level, l)
    THEN << [time |-> t, level |-> l] >>
    ELSE ref

\* variant: { ...session, endLevel: level }, endTime left unset
FinalSessionStaysOpen(sess, t, l) == [ sess EXCEPT !.endLevel = l ]
\* variant: { ...session, endTime: Date.now(), endLevel: session.startLevel }
FinalSessionEndsAtStart(sess, t, l) == [ sess EXCEPT !.endTime = t, !.endLevel = sess.startLevel ]
\* { ...session, endTime: Date.now(), endLevel: level }
FinalSession(sess, t, l) == [ sess EXCEPT !.endTime = t, !.endLevel = l ]

\* variant: [...prev, finalSession].slice(0, MAX_STORED_SESSIONS)
PushPastAtEnd(prev, final) == SliceFirst(prev \o << final >>, MAX_STORED_SESSIONS)
\* setPastSessions(prev => [finalSession, ...prev].slice(0, MAX_STORED_SESSIONS))
PushPast(prev, final) == SliceFirst(<< final >> \o prev, MAX_STORED_SESSIONS)

\* variant: the reset of lastUpdateRef forgotten
StaleRef == lastUpdateRef
\* lastUpdateRef.current = null, at the end of the idle branch
IdleRef == << >>

\* setMetrics({ watts: 0, volts: 0, amps: 0 })
ZeroMetrics == [watts |-> Zero, volts |-> Zero, amps |-> Zero]

(***************************************************************************)
(* Persistence of the session history (App.tsx:35-38, 83-87, 234).         *)
(***************************************************************************)
\* localStorage.getItem('vf-sessions') === null
Absent == [kind |-> "absent", sessions |-> << >>]
\* an item that is not JSON
Corrupt == [kind |-> "corrupt", sessions |-> << >>]
\* JSON.stringify(sessions): the text is kept as the array it denotes
Stringify(sessions) == [kind |-> "json", sessions |-> sessions]
\* JSON.parse of an item JSON.stringify wrote
Parse(item) == item.sessions

\* the persistence effect, run when pastSessions changed
Persist(item, past) ==
    IF Len(past) > 0 THEN Stringify(SliceFirst(past, MAX_STORED_SESSIONS)) ELSE item

(***************************************************************************)
(* Insight generation (App.tsx:177-189, types.ts:39-65).                   *)
(***************************************************************************)
\* new Date(h.timestamp).toLocaleTimeString(): the clock time of the day, in seconds
LocaleTime(ts) == (ts \div 1000) % 86400

\* history.map(h => ({time, level, wattage, voltage, amperage}))
RequestData(hist) ==
    [ i \in 1..Len(hist) |->
        [ time |-> LocaleTime(hist[i].timestamp), level |-> hist[i].level,
          wattage |-> hist[i].wattage, voltage |-> hist[i].voltage,
          amperage |-> hist[i].amperage ] ]

\* the call getChargingInsights(data, stats.avgWattage, stats.maxWattage) number id
Request(id, hist, stats) ==
    [ id |-> id, data |-> RequestData(hist),
      avgWattage |-> stats.avgWattage, maxWattage |-> stats.maxWattage ]

\* what the generateContent call of a request can end with
Outcomes == { "text", "undefined", "error" }

\* the strings the model distinguishes
EmptyString == [kind |-> "empty", req |-> 0]
Undefined == [kind |-> "undefined", req |-> 0]
Fallback == [kind |-> "fallback", req |-> 0]
ResponseText(req) == [kind |-> "text", req |-> req.id]

\* getChargingInsights: response.text, or the fixed string when the call throws
getChargingInsights(req, outcome) ==
    CASE outcome = "text" -> ResponseText(req)
      [] outcome = "undefined" -> Undefined
      [] outcome = "error" -> Fallback

\* insight || ''
OrEmpty(x) == IF x = Undefined \/ x = EmptyString THEN EmptyString ELSE x

(***************************************************************************)
(* Initial state: the component after its first render and effects.        *)
(***************************************************************************)
\* a session a previous run closed and saved
SavedSession ==
    [ startTime |-> 0, endTime |-> 60000, startLevel |-> << 2, 5 >>,
      endLevel |-> << 41, 100 >>, avgWattage |-> << 231, 20 >>,
      maxWattage |-> << 231, 20 >>, avgVoltage |-> << 5, 1 >>,
      maxAmperage |-> << 231, 100 >>, totalEnergyWh |-> Zero ]

\* what localStorage can hold for 'vf-sessions' when the component is constructed
SavedItems == { Absent, Corrupt, Stringify(<< SavedSession >>) }
\* the items the short behaviours of Spec start from
FreshItems == { Absent, Corrupt }

\* the initializer of pastSessions: saved ? JSON.parse(saved) : []
\* (JSON.parse throws on an item that is not JSON, and the component is not constructed)
LoadSessions(item) == IF item.kind = "json" THEN Parse(item) ELSE << >>
LoadSucceeds(item) == item.kind # "corrupt"

InitFrom(items) ==
    /\ saved \in items
    /\ mounted = LoadSucceeds(saved)
    /\ pastSessions = LoadSessions(saved)
    /\ isCharging = FALSE
    /\ level = Zero
    /\ metrics = ZeroMetrics
    /\ history = << >>
    /\ session = << >>
    /\ aiInsight = EmptyString
    /\ isLoadingInsight = FALSE
    /\ lastUpdateRef = << >>
    /\ pending = {}
    /\ now = 0
    /\ pre = [kind |-> "init", wasCharging |-> FALSE, wasLevel |-> Zero, wasRef |-> << >>]
    /\ nEvents = 0
    /\ issued = 0
    /\ accepted = << >>
    /\ sessionLog = << >>
    /\ closedAll = LoadSessions(saved)
    /\ closedKept = LoadSessions(saved)
    /\ chargeStart = Zero
    /\ nStops = 0

Init == InitFrom(FreshItems)

(***************************************************************************)
(* The session effect, charging branch (App.tsx:111-164).                  *)
(***************************************************************************)
ChargingBranch(l, t0, t, rnd) ==
    LET opened == OpenIfNone(session, t0, l)
        take == SampleAccepted(lastUpdateRef, l, t)
        watts == SampleWatts(lastUpdateRef, l, t)
        ep == estimateElectricalProperties(watts, rnd)
        entry == LogEntry(t, l, watts, ep)
    IN  /\ session' = IF take THEN FoldSession(opened, watts, ep) ELSE opened
        /\ metrics' = IF take THEN [watts |-> watts, volts |-> ep.volts, amps |-> ep.amps]
                      ELSE metrics
        /\ history' = IF take THEN PushHistory(history, entry) ELSE history
        /\ lastUpdateRef' = NextRef(lastUpdateRef, l, t)
        /\ now' = t
        /\ UNCHANGED << pastSessions, saved, isLoadingInsight, pending, issued, closedAll,
                        closedKept >>
        /\ accepted' = IF take THEN Append(accepted, entry) ELSE accepted
        /\ sessionLog' = IF take
                         THEN Append(IF NoOpenSession(session) THEN << >> ELSE sessionLog, entry)
                         ELSE IF NoOpenSession(session) THEN << >> ELSE sessionLog

(***************************************************************************)
(* The session effect, idle branch (App.tsx:165-174), with                 *)
(* triggerAiAnalysis up to its await (App.tsx:177-186) and the persistence *)
(* effect that the change of pastSessions runs (App.tsx:83-87).            *)
(***************************************************************************)
IdleBranch(l, t) ==
    LET final == FinalSession(session[1], t, l)
    IN  /\ IF HasOpenSession(session)
           THEN /\ session' = << final >>
                /\ pastSessions' = PushPast(pastSessions, final)
                /\ saved' = Persist(saved, pastSessions')
                /\ isLoadingInsight' = TRUE
                /\ pending' = pending \cup { Request(issued + 1, history, final) }
                /\ issued' = issued + 1
                /\ now' = t
                /\ closedAll' = << final >> \o closedAll
                /\ closedKept' = << final >> \o closedKept
           ELSE UNCHANGED << session, pastSessions, saved, isLoadingInsight, pending,
                             issued, now, closedAll, closedKept >>
        /\ metrics' = ZeroMetrics
        /\ lastUpdateRef' = IdleRef
        /\ UNCHANGED << history, accepted, sessionLog >>

(***************************************************************************)
(* A battery event: updateStatus (App.tsx:54-57) sets isCharging and level *)
(* from the battery, then the effects of the render run.                   *)
(***************************************************************************)
BatteryEvent(c, l, t0, t, rnd) ==
    /\ mounted
    /\ isCharging' = c
    /\ level' = l
    /\ nEvents' = nEvents + 1
    /\ pre' = [kind |-> "battery", wasCharging |-> isCharging, wasLevel |-> level,
               wasRef |-> lastUpdateRef]
    /\ chargeStart' = IF c /\ ~isCharging THEN l ELSE chargeStart
    /\ nStops' = IF isCharging /\ ~c THEN nStops + 1 ELSE nStops
    /\ UNCHANGED << mounted, aiInsight >>
    /\ IF DepsChanged(c, l)
       THEN IF c THEN ChargingBranch(l, t0, t, rnd) ELSE IdleBranch(l, t)
       ELSE UNCHANGED << saved, metrics, history, session, pastSessions, isLoadingInsight,
                         lastUpdateRef, pending, now, issued, accepted, sessionLog,
                         closedAll, closedKept >>

\* The two Date.now() of one run of the effect (App.tsx:114, 126) are taken to
\* return the same instant.
Deliver ==
    /\ nEvents < MaxEvents
    /\ \E c \in BOOLEAN, l \in Levels, t \in Times, rnd \in Randoms :
           BatteryEvent(c, l, t, t, rnd)

\* variant of InsightReturns: the resumed triggerAiAnalysis also resets the live metrics
InsightReturnsResetsMetrics(req, outcome) ==
    /\ mounted
    /\ req \in pending
    /\ pending' = pending \ { req }
    /\ aiInsight' = OrEmpty(getChargingInsights(req, outcome))
    /\ isLoadingInsight' = FALSE
    /\ metrics' = ZeroMetrics
    /\ pre' = [kind |-> "insight", wasCharging |-> isCharging, wasLevel |-> level,
               wasRef |-> lastUpdateRef]
    /\ UNCHANGED << mounted, saved, isCharging, level, history, session,
                    pastSessions, lastUpdateRef, now >>
    /\ UNCHANGED << nEvents, issued, accepted, sessionLog, closedAll, closedKept,
                    chargeStart, nStops >>

\* variant of InsightReturns: a failed call is issued again
InsightReturnsRetries(req, outcome) ==
    /\ mounted
    /\ req \in pending
    /\ pending' = IF outcome = "error"
                  THEN (pending \ { req }) \cup { [req EXCEPT !.id = issued + 1] }
                  ELSE pending \ { req }
    /\ issued' = IF outcome = "error" THEN issued + 1 ELSE issued
    /\ aiInsight' = OrEmpty(getChargingInsights(req, outcome))
    /\ isLoadingInsight' = FALSE
    /\ pre' = [kind |-> "insight", wasCharging |-> isCharging, wasLevel |-> level,
               wasRef |-> lastUpdateRef]
    /\ UNCHANGED << mounted, saved, isCharging, level, metrics, history, session,
                    pastSessions, lastUpdateRef, now >>
    /\ UNCHANGED << nEvents, accepted, sessionLog, closedAll, closedKept,
                    chargeStart, nStops >>

(***************************************************************************)
(* A call of getChargingInsights returns and triggerAiAnalysis resumes     *)
(* (App.tsx:186-188).                                                      *)
(***************************************************************************)
InsightReturns(req, outcome) ==
    /\ mounted
    /\ req \in pending
    /\ pending' = pending \ { req }
    /\ aiInsight' = OrEmpty(getChargingInsights(req, outcome))
    /\ isLoadingInsight' = FALSE
    /\ pre' = [kind |-> "insight", wasCharging |-> isCharging, wasLevel |-> level,
               wasRef |-> lastUpdateRef]
    /\ UNCHANGED << mounted, saved, isCharging, level, metrics, history, session,
                    pastSessions, lastUpdateRef, now >>
    /\ UNCHANGED << nEvents, issued, accepted, sessionLog, closedAll, closedKept,
                    chargeStart, nStops >>

Complete == \E req \in pending, outcome \in Outcomes : InsightReturns(req, outcome)

(***************************************************************************)
(* The "Clear Logs" button (App.tsx:234); pastSessions is then empty and   *)
(* the persistence effect writes nothing.                                  *)
(***************************************************************************)
ClearLogs ==
    /\ mounted
    /\ pastSessions # << >>
    /\ pastSessions' = << >>
    /\ saved' = Persist(Absent, pastSessions')
    /\ closedKept' = << >>
    /\ pre' = [kind |-> "clear", wasCharging |-> isCharging, wasLevel |-> level,
               wasRef |-> lastUpdateRef]
    /\ UNCHANGED << mounted, isCharging, level, metrics, history, session, aiInsight,
                    isLoadingInsight, lastUpdateRef, pending, now >>
    /\ UNCHANGED << nEvents, issued, accepted, sessionLog, closedAll, chargeStart,
                    nStops >>

Next == Deliver \/ Complete \/ ClearLogs

Spec == Init /\ [][Next]_vars

(***************************************************************************)
(* Long behaviours: a battery that charges in cycles.  One event a minute; *)
(* every event changes the level; every CyclePeriod-th event reports       *)
(* charging = false, the others charging = true.  The insight service      *)
(* answers before the next event.  The history caps are reached.           *)
(***************************************************************************)
\* events of a long behaviour
MaxLongEvents == 80
\* events from one stop of charging to the next
CyclePeriod == 10

OtherLevel(l) == IF l = << 2, 5 >> THEN << 13, 25 >> ELSE << 2, 5 >>

InitLong == InitFrom(SavedItems)

DeliverLong ==
    /\ nEvents < MaxLongEvents
    /\ pending = {}
    /\ BatteryEvent((nEvents + 1) % CyclePeriod # 0, OtherLevel(level),
                    60000 * (nEvents + 1), 60000 * (nEvents + 1), << 0, 1 >>)

NextLong == DeliverLong \/ Complete \/ ClearLogs

SpecLong == InitLong /\ [][NextLong]_vars

(***************************************************************************)
(* The behaviours of Spec in which every call of getChargingInsights       *)
(* returns: the promise is settled by the response or by the catch.  No    *)
(* battery event is ever bound to arrive.                                  *)
(***************************************************************************)
SpecFair == Spec /\ WF_vars(Complete)

(***************************************************************************)
(* The rate estimator alone: estimateElectricalProperties applied to a     *)
(* clamped wattage and shown as the live metrics (App.tsx:134-136).        *)
(***************************************************************************)
\* the wattages estimated are the halves of a watt up to MaxHalfWatts / 2
MaxHalfWatts == 120
\* values Math.random() returns, in [0, 1)
EstRandoms == { << 0, 1 >>, << 1, 2 >>, << 99, 100 >> }

Estimate(watts, rnd) ==
    LET ep == estimateElectricalProperties(watts, rnd)
    IN  /\ mounted
        /\ metrics' = [watts |-> watts, volts |-> ep.volts, amps |-> ep.amps]
        /\ pre' = [kind |-> "estimate", wasCharging |-> isCharging, wasLevel |-> level,
                   wasRef |-> lastUpdateRef]
        /\ UNCHANGED << mounted, saved, isCharging, level, history, session, pastSessions,
                        aiInsight, isLoadingInsight, lastUpdateRef, pending, now >>
        /\ UNCHANGED << nEvents, issued, accepted, sessionLog, closedAll, closedKept,
                        chargeStart, nStops >>

EstimateAny == \E k \in 0..MaxHalfWatts, rnd \in EstRandoms : Estimate(Rat(k, 2), rnd)

SpecEst == Init /\ [][EstimateAny]_vars


(***************************************************************************)
(* Vocabulary of the properties, written on the state alone.               *)
(***************************************************************************)
Min2(a, b) == IF a < b THEN a ELSE b
\* the current session exists and has no endTime
CurOpen == session # << >> /\ session[1].endTime = NullTime
\* the current session exists and has an endTime
CurClosed == session # << >> /\ session[1].endTime # NullTime
\* the step delivers a battery event whose charging flag goes true -> false
StopEdge == pre'.kind = "battery" /\ isCharging /\ ~isCharging'
\* the step delivers a battery event whose charging flag goes false -> true
StartEdge == pre'.kind = "battery" /\ ~isCharging /\ isCharging'
\* the step appends a telemetry sample
SampleStep == Len(accepted') = Len(accepted) + 1
\* the last m elements of s, oldest first
LastOf(s, m) == [ i \in 1..Min2(m, Len(s)) |-> s[Len(s) - Min2(m, Len(s)) + i] ]
\* the first m elements of s
FirstOf(s, m) == [ i \in 1..Min2(m, Len(s)) |-> s[i] ]
\* 0 <= x <= 120
InRange(x) == RLe(Zero, x) /\ RLe(x, << 120, 1 >>)
AllZero == [watts |-> Zero, volts |-> Zero, amps |-> Zero]

(***************************************************************************)
(* C1: at most one session is open at any time: only the current session   *)
(* can be open, and every entry of pastSessions has endTime and endLevel   *)
(* set.                                                                    *)
(***************************************************************************)
C1_AtMostOneOpen ==
    /\ \A i \in DOMAIN pastSessions :
          /\ pastSessions[i].endTime # NullTime
          /\ pastSessions[i].endLevel # NullLevel
    /\ (IF CurOpen THEN 1 ELSE 0)
         + Cardinality({ i \in DOMAIN pastSessions : pastSessions[i].endTime = NullTime }) <= 1

\* a session is open while the history holds a session closed in this run
C1_Witness == CurOpen /\ issued >= 1 /\ Len(pastSessions) >= 1

(***************************************************************************)
(* C2: a session is closed exactly once and only on a charging true ->     *)
(* false edge: such an edge with an open session pushes exactly one closed *)
(* session on pastSessions; no other step closes a session or adds to      *)
(* pastSessions.                                                           *)
(***************************************************************************)
C2_ClosedOnceOnStopEdge ==
    [][ IF StopEdge /\ CurOpen
        THEN /\ CurClosed'
             /\ Len(pastSessions') = Min2(Len(pastSessions) + 1, 5)
             /\ pastSessions'[1] = session'[1]
             /\ \A i \in 2..Len(pastSessions') : pastSessions'[i] = pastSessions[i - 1]
        ELSE /\ CurOpen => CurOpen'
             /\ CurClosed' => session' = session
             /\ pastSessions' = pastSessions \/ pastSessions' = << >>
      ]_vars

\* a level change was delivered while idle, after a session was closed
C2_Witness ==
    /\ pre.kind = "battery" /\ ~pre.wasCharging /\ ~isCharging /\ pre.wasLevel # level
    /\ issued = 1 /\ CurClosed /\ Len(pastSessions) = 1

(***************************************************************************)
(* C3: when charging stops with a session open, the closed session is the  *)
(* open session with endTime = the time of the stop and endLevel = the     *)
(* level at the stop, its startLevel is the level at which charging        *)
(* started, it is entry 0 of pastSessions, and the live metrics are 0.     *)
(***************************************************************************)
C3_ClosedSessionRecord ==
    [][ StopEdge /\ CurOpen =>
          /\ session' = << [ session[1] EXCEPT !.endTime = now', !.endLevel = level' ] >>
          /\ session'[1].startLevel = chargeStart
          /\ pastSessions' # << >>
          /\ pastSessions'[1] = session'[1]
          /\ metrics' = AllZero
      ]_vars

\* charging stopped at another level than it started, after a sample with wattage > 0
C3_Witness ==
    /\ pre.kind = "battery" /\ pre.wasCharging /\ ~isCharging
    /\ CurClosed
    /\ session[1].startLevel # session[1].endLevel
    /\ RLt(Zero, session[1].maxWattage)
    /\ pastSessions[1] = session[1]

(***************************************************************************)
(* C4: the first accepted sample of a session sets avgWattage to its       *)
(* wattage w1, the second to (w1 + w2) / 2, every later one to (previous   *)
(* avgWattage + w) / 2, for all wattages in [0, 120].                      *)
(***************************************************************************)
C4_AvgRecurrence ==
    [][ SampleStep =>
          LET n == Len(sessionLog') - 1
              w == accepted'[Len(accepted')].wattage
          IN  session'[1].avgWattage =
                 IF n = 0 THEN w
                 ELSE IF n = 1 THEN RDiv(RAdd(sessionLog'[1].wattage, w), << 2, 1 >>)
                 ELSE RDiv(RAdd(session[1].avgWattage, w), << 2, 1 >>)
      ]_vars

(***************************************************************************)
(* C5: the telemetry history never holds more than 50 entries; after n     *)
(* accepted samples it holds the min(n, 50) most recent ones, oldest       *)
(* first; after 60 accepted samples its length is 50.                      *)
(***************************************************************************)
C5_HistoryCap ==
    /\ Len(history) <= 50
    /\ history = LastOf(accepted, 50)
    /\ Len(accepted) >= 60 => Len(history) = 50

\* 60 samples were accepted
C5_Witness == Len(accepted) >= 60 /\ Len(history) = 50 /\ history[1] = accepted[Len(accepted) - 49]

(***************************************************************************)
(* C6 as stated: the session history never holds more than 5 entries and   *)
(* holds the min(k, 5) most recently closed of the k sessions completed,   *)
(* most recent first.                                                      *)
(***************************************************************************)
C6_Original ==
    /\ Len(pastSessions) <= 5
    /\ pastSessions = FirstOf(closedAll, 5)

(***************************************************************************)
(* C6 amended: the session history never holds more than 5 entries and     *)
(* holds the min(k, 5) most recently closed of the k sessions completed    *)
(* since it was last cleared with "Clear Logs" (all of them if it never    *)
(* was), most recent first; with 7 such sessions it holds 5.               *)
(***************************************************************************)
C6_SessionCap ==
    /\ Len(pastSessions) <= 5
    /\ pastSessions = FirstOf(closedKept, 5)
    /\ Len(closedKept) >= 7 => Len(pastSessions) = 5

\* 7 sessions were completed and the 5 most recent are retained
C6_Witness ==
    /\ Len(closedKept) >= 7 /\ Len(pastSessions) = 5
    /\ pastSessions[5] = closedKept[5] /\ pastSessions[1] # pastSessions[5]

(***************************************************************************)
(* C7: while charging, a second delivery of the same level changes no      *)
(* telemetry sample, no session aggregate, no live metric and not          *)
(* LastSamplePoint.                                                        *)
(***************************************************************************)
C7_DuplicateLevelNoOp ==
    [][ pre'.kind = "battery" /\ isCharging /\ isCharging' /\ level' = level =>
          UNCHANGED << history, session, metrics, lastUpdateRef >>
      ]_vars

\* the level just delivered while charging is the one delivered before, after a sample
C7_Witness ==
    /\ pre.kind = "battery" /\ pre.wasCharging /\ isCharging /\ pre.wasLevel = level
    /\ lastUpdateRef # << >> /\ Len(history) >= 1

(***************************************************************************)
(* C8: a level change while charging whose elapsed time since              *)
(* LastSamplePoint is zero or negative records nothing (no telemetry       *)
(* entry, no aggregate, no live metric changes, the component keeps        *)
(* running) and still moves LastSamplePoint to the new (time, level).      *)
(***************************************************************************)
C8_NonPositiveElapsedSkipped ==
    [][ ( /\ pre'.kind = "battery" /\ isCharging /\ isCharging'
          /\ level' # level
          /\ lastUpdateRef # << >>
          /\ now' <= lastUpdateRef[1].time )
        => /\ history' = history
           /\ session' = session
           /\ metrics' = metrics
           /\ mounted'
           /\ lastUpdateRef' = << [time |-> now', level |-> level'] >>
      ]_vars

\* a level change arrived with a clock behind LastSamplePoint, after a sample
C8_Witness ==
    /\ pre.kind = "battery" /\ pre.wasCharging /\ isCharging /\ pre.wasLevel # level
    /\ pre.wasRef # << >>
    /\ now < pre.wasRef[1].time
    /\ Len(history) >= 1

(***************************************************************************)
(* C9: every emitted wattage (live metric, telemetry entry, aggregate) is  *)
(* in [0, 120]; a sample with a negative level delta has wattage 0, one    *)
(* whose raw value (currLevel - prevLevel) * 19.25 / elapsedHours is above *)
(* 120 has 120, one whose raw value is in [0, 120] has the raw value.      *)
(***************************************************************************)
C9_WattageClamped ==
    [][ /\ InRange(metrics'.watts)
        /\ \A i \in DOMAIN history' : InRange(history'[i].wattage)
        /\ session' # << >> =>
              InRange(session'[1].avgWattage) /\ InRange(session'[1].maxWattage)
        /\ SampleStep =>
              LET ref == lastUpdateRef[1]
                  dl == RSub(level', ref.level)
                  raw == RDiv(RMul(dl, Rat(1925, 100)), Rat(now' - ref.time, 3600000))
                  w == history'[Len(history')].wattage
              IN  /\ metrics'.watts = w
                  /\ RLt(dl, Zero) => w = Zero
                  /\ RLt(<< 120, 1 >>, raw) => w = << 120, 1 >>
                  /\ InRange(raw) => w = raw
      ]_vars

\* the history holds a sample capped at 120 and one strictly inside the interval
C9_Witness ==
    /\ \E i \in DOMAIN history : history[i].wattage = << 120, 1 >>
    /\ \E i \in DOMAIN history :
          RLt(Zero, history[i].wattage) /\ RLt(history[i].wattage, << 120, 1 >>)

(***************************************************************************)
(* C10: the return of an insight request, successful or failed, changes    *)
(* only aiInsight and isLoadingInsight; and while a request is in flight   *)
(* battery events are processed as ever: a start edge opens a session, a   *)
(* stop edge closes it.                                                    *)
(***************************************************************************)
C10_InsightFrame ==
    [][ /\ (pending' # pending /\ pending' \subseteq pending) =>
              UNCHANGED << session, pastSessions, history, metrics, lastUpdateRef,
                           isCharging, level, saved, mounted >>
        /\ (pre'.kind = "battery" /\ pending # {}) =>
              /\ (~isCharging /\ isCharging') =>
                    CurOpen' /\ session'[1].startLevel = level'
              /\ (isCharging /\ ~isCharging' /\ CurOpen) =>
                    /\ CurClosed'
                    /\ pastSessions'[1] = session'[1]
                    /\ Cardinality(pending') = Cardinality(pending) + 1
      ]_vars

\* a request failed while a later session, opened during the request, had recorded a sample
C10_Witness ==
    /\ pre.kind = "insight" /\ aiInsight = Fallback
    /\ CurOpen /\ RLt(Zero, metrics.watts)
    /\ issued = 1 /\ pending = {}


(***************************************************************************)
(* C11: estimateElectricalProperties takes the tier 5.0 for 0 < watts <=   *)
(* 12, 9.0 for 12 < watts <= 25 and 12.0 for watts > 25, returns volts     *)
(* within 0.05 of the tier and amps = watts / volts when watts > 0, and    *)
(* volts exactly 5.0 and amps exactly 0 when watts = 0.                    *)
(***************************************************************************)
C11_VoltageTiers ==
    pre.kind = "estimate" =>
        LET w == metrics.watts
            tier == IF RLe(w, << 12, 1 >>) THEN << 5, 1 >>
                    ELSE IF RLe(w, << 25, 1 >>) THEN << 9, 1 >>
                    ELSE << 12, 1 >>
            off == RSub(metrics.volts, tier)
        IN  IF w = Zero
            THEN metrics.volts = << 5, 1 >> /\ metrics.amps = Zero
            ELSE /\ RLe(<< -1, 20 >>, off) /\ RLe(off, << 1, 20 >>)
                 /\ RMul(metrics.amps, metrics.volts) = w
                 /\ metrics.amps = RDiv(w, metrics.volts)

\* 12 W was estimated, at the upper edge of the 5 V tier, with a jitter
C11_Witness ==
    /\ pre.kind = "estimate" /\ metrics.watts = << 12, 1 >>
    /\ RLt(metrics.volts, << 5, 1 >>) /\ RLt(<< 2, 1 >>, metrics.amps)

(***************************************************************************)
(* C12: the telemetry history is time-ascending in every reachable state:  *)
(* of any two adjacent entries the earlier one's timestamp is not greater  *)
(* than the later one's, whatever the order of the event timestamps.       *)
(* Refuted: the sample guard (App.tsx:131) compares the clock only with    *)
(* lastUpdateRef, which line 163 moves back in time when a sample is       *)
(* skipped, so a later sample is appended behind a newer entry.            *)
(***************************************************************************)
C12_TimeAscending ==
    \A i \in 1..(Len(history) - 1) : history[i].timestamp <= history[i + 1].timestamp

(***************************************************************************)
(* C13 as stated: closed sessions are immutable: once a session is closed, *)
(* no later event changes a field of the record, as the most recent        *)
(* session (it stays as it is until a new session replaces it) or as an    *)
(* entry of the session history (every step leaves the history alone or    *)
(* puts one record in front of it and drops what lies beyond the fifth     *)
(* place); an entry leaves the history by eviction only.                   *)
(***************************************************************************)
C13_Original ==
    [][ /\ CurClosed => (session' = session \/ CurOpen')
        /\ \/ pastSessions' = pastSessions
           \/ /\ pastSessions' # << >>
              /\ Tail(pastSessions') = FirstOf(pastSessions, 4) ]_vars

(***************************************************************************)
(* C13 amended: closed sessions are immutable, and an entry leaves the     *)
(* session history by eviction or when the user empties the history with   *)
(* "Clear Logs", in no other way.                                          *)
(***************************************************************************)
C13_ClosedImmutable ==
    [][ /\ CurClosed => (session' = session \/ CurOpen')
        /\ \/ pastSessions' = pastSessions
           \/ /\ pastSessions' # << >>
              /\ Tail(pastSessions') = FirstOf(pastSessions, 4)
           \/ pre'.kind = "clear" /\ pastSessions' = << >> ]_vars

\* the history was cleared once, later closes filled it and evicted an entry,
\* and the session now open has taken a sample beside the closed records
C13_Witness ==
    /\ Len(closedAll) > Len(closedKept) /\ Len(closedKept) >= 6
    /\ Len(pastSessions) = 5 /\ pastSessions[5] = closedKept[5]
    /\ CurOpen /\ Len(sessionLog) >= 1

(***************************************************************************)
(* C14: at startup, a persisted session history that is absent or corrupt  *)
(* (not parseable) gives an empty session history and a running tracker,   *)
(* not a fatal error.  Refuted for the corrupt item: the initializer       *)
(* (App.tsx:35-38) calls JSON.parse outside any try, the exception leaves  *)
(* the first render and the component is never constructed.                *)
(***************************************************************************)
C14_FailOpenStartup ==
    (pre.kind = "init" /\ saved.kind \in { "absent", "corrupt" }) =>
        (mounted /\ pastSessions = << >>)

(***************************************************************************)
(* C15 as stated: when the Idle -> Charging transition has completed, a    *)
(* new session is open with startLevel = current level, all aggregates 0   *)
(* and endTime / endLevel unset, and LastSamplePoint is unset.             *)
(***************************************************************************)
C15_Original ==
    (pre.kind = "battery" /\ ~pre.wasCharging /\ isCharging) =>
        /\ session = << [ startTime |-> now, endTime |-> NullTime, startLevel |-> level,
                          endLevel |-> NullLevel, avgWattage |-> Zero,
                          maxWattage |-> Zero, avgVoltage |-> Zero,
                          maxAmperage |-> Zero, totalEnergyWh |-> Zero ] >>
        /\ lastUpdateRef = << >>

(***************************************************************************)
(* C15 amended: when the Idle -> Charging transition has completed, a new  *)
(* session is open with startLevel = current level, all aggregates 0 and   *)
(* endTime / endLevel unset, and LastSamplePoint is the pair (time of the  *)
(* transition, current level).                                             *)
(***************************************************************************)
C15_OpenOnStart ==
    (pre.kind = "battery" /\ ~pre.wasCharging /\ isCharging) =>
        /\ session = << [ startTime |-> now, endTime |-> NullTime, startLevel |-> level,
                          endLevel |-> NullLevel, avgWattage |-> Zero,
                          maxWattage |-> Zero, avgVoltage |-> Zero,
                          maxAmperage |-> Zero, totalEnergyWh |-> Zero ] >>
        /\ lastUpdateRef = << [time |-> now, level |-> level] >>

\* charging has started again after a session with a sample was closed
C15_Witness ==
    /\ pre.kind = "battery" /\ ~pre.wasCharging /\ isCharging
    /\ Len(closedAll) >= 1 /\ closedAll[1].maxWattage # Zero
    /\ CurOpen /\ session[1].maxWattage = Zero
    /\ lastUpdateRef # << >> /\ lastUpdateRef[1].time = 120000

(***************************************************************************)
(* C16: at every point of an open session, maxWattage is the maximum       *)
(* wattage over all samples accepted so far in that session and            *)
(* maxAmperage the maximum amperage over them, both 0 when there is none.  *)
(***************************************************************************)
\* the greatest element of a finite set of numbers, 0 for the empty set
MaxOver(S) == IF S = {} THEN Zero ELSE CHOOSE m \in S : \A x \in S : RLe(x, m)

C16_MaxAggregates ==
    CurOpen =>
        /\ session[1].maxWattage =
               MaxOver({ sessionLog[i].wattage : i \in 1..Len(sessionLog) })
        /\ session[1].maxAmperage =
               MaxOver({ sessionLog[i].amperage : i \in 1..Len(sessionLog) })

\* the open session has two samples and the earlier one holds both maxima
C16_Witness ==
    /\ CurOpen /\ Len(sessionLog) = 2
    /\ RLt(sessionLog[2].wattage, sessionLog[1].wattage)
    /\ RLt(sessionLog[2].amperage, sessionLog[1].amperage)
    /\ session[1].maxWattage = sessionLog[1].wattage
    /\ session[1].maxAmperage = sessionLog[1].amperage

(***************************************************************************)
(* C17: the first accepted sample of a session sets avgVoltage to that     *)
(* sample's voltage, and every later accepted sample with voltage v sets   *)
(* avgVoltage to (previous avgVoltage + v) / 2.                            *)
(***************************************************************************)
\* v1, then (previous + v) / 2 for every further voltage of the log
RECURSIVE VoltageAvg(_)
VoltageAvg(log) ==
    IF Len(log) = 1 THEN log[1].voltage
    ELSE LET prev == VoltageAvg(SubSeq(log, 1, Len(log) - 1))
         IN  << prev[1] * log[Len(log)].voltage[2] + log[Len(log)].voltage[1] * prev[2],
                2 * prev[2] * log[Len(log)].voltage[2] >>

C17_AvgVoltageRecurrence ==
    session # << >> =>
        IF sessionLog = << >> THEN session[1].avgVoltage = Zero
        ELSE LET a == session[1].avgVoltage
                 r == VoltageAvg(sessionLog)
             IN  a[1] * r[2] = r[1] * a[2]

\* two samples of different voltage, the first of them with wattage 0
C17_Witness ==
    /\ CurOpen /\ Len(sessionLog) = 2
    /\ sessionLog[1].wattage = Zero /\ sessionLog[1].voltage = << 5, 1 >>
    /\ sessionLog[2].voltage # sessionLog[1].voltage
    /\ session[1].avgVoltage # sessionLog[1].voltage
    /\ session[1].avgVoltage # sessionLog[2].voltage

(***************************************************************************)
(* C18: LastSamplePoint is set only while a charging episode is active:    *)
(* in every reachable state in which charging is false, LastSamplePoint is *)
(* unset, also after a level change delivered while idle.                  *)
(***************************************************************************)
C18_RefOnlyWhileCharging == ~isCharging => lastUpdateRef = << >>

\* a session with a sample was closed and the level then changed while idle
C18_Witness ==
    /\ pre.kind = "battery" /\ ~pre.wasCharging /\ ~isCharging
    /\ pre.wasLevel # level /\ nStops >= 1 /\ accepted # << >>
    /\ lastUpdateRef = << >>

(***************************************************************************)
(* C19: exactly one insight request is issued per session close and none   *)
(* at any other time: the number of requests issued equals the number of   *)
(* sessions closed (one for every true -> false change of the charging     *)
(* flag), and a failed request is not issued again.                        *)
(***************************************************************************)
C19_OneRequestPerClose ==
    /\ issued = Len(closedAll)
    /\ issued = nStops
    /\ \A req \in pending : req.id \in 1..issued

\* two sessions were closed, both requests returned and the last one failed
C19_Witness ==
    /\ nStops = 2 /\ issued = 2 /\ pending = {}
    /\ pre.kind = "insight" /\ aiInsight = Fallback

(***************************************************************************)
(* C20: if charging stays true and the level stops changing, the live      *)
(* wattage goes to 0: after the last level change, with no further level   *)
(* deltas, metrics.watts becomes 0 without charging having to stop.        *)
(* Refuted: metrics is written by an accepted sample (App.tsx:136) and by  *)
(* the idle branch (App.tsx:172) only; no timer and no event of an         *)
(* unchanged level touches it, so the last sample's wattage stays.  The    *)
(* formula speaks of the behaviours in which a further battery event       *)
(* could still be delivered and none with a new level or a cleared         *)
(* charging flag is.                                                       *)
(***************************************************************************)
C20_WattsDecay ==
    \A l \in Levels :
        <>[](isCharging /\ level = l /\ nEvents < MaxEvents)
            => []<>(metrics.watts = Zero)

(***************************************************************************)
(* C21: the loading indicator is accurate under overlapping requests: in   *)
(* every reachable state isLoadingInsight is true exactly when at least    *)
(* one insight request is still in flight.  Refuted: every returning       *)
(* request sets isLoadingInsight to false (App.tsx:188), also while the    *)
(* request of another close is still awaited.                              *)
(***************************************************************************)
C21_LoadingAccurate == isLoadingInsight <=> (pending # {})

(***************************************************************************)
(* C22: once all in-flight insight requests have completed, the exposed    *)
(* insight text is the response to the request issued for the most         *)
(* recently closed session, in whatever order the responses arrived.       *)
(* Refuted: every returning request overwrites aiInsight (App.tsx:187), so *)
(* the response that arrives last stays, whichever request it answers.     *)
(***************************************************************************)
C22_LatestInsightWins ==
    (pending = {} /\ aiInsight.kind = "text") => aiInsight.req = issued

(***************************************************************************)
(* C23: every telemetry point sent in the insight request for a closed     *)
(* session was recorded during that session: its time lies between the     *)
(* session's startTime and endTime, also when earlier sessions recorded    *)
(* samples before it.  Refuted: history is never emptied (App.tsx:137 is   *)
(* its only writer) and triggerAiAnalysis sends all of it (App.tsx:179).   *)
(* The request numbered issued belongs to the current session as long as   *)
(* that session is the closed one.                                         *)
(***************************************************************************)
C23_RequestDataOfSession ==
    \A req \in pending :
        (req.id = issued /\ CurClosed) =>
            \A i \in 1..Len(req.data) :
                /\ LocaleTime(session[1].startTime) <= req.data[i].time
                /\ req.data[i].time <= LocaleTime(session[1].endTime)

====
